---- MODULE Spec2Model ----
(***************************************************************************)
(* State-machine model of the msa multi-step agent:                        *)
(*   - msa/tools/circuit_breaker.py   (CircuitBreaker)                     *)
(*   - msa/controller/components.py   (Controller.process_query and the    *)
(*     component functions it calls)                                       *)
(* Time is an integer clock `now`; None is the sentinel -1.                *)
(***************************************************************************)
EXTENDS Integers, Sequences, FiniteSets, TLC

\* ---------------------------------------------------------------- bounds
MaxThreshold == 2      \* failure_threshold is drawn from 1..MaxThreshold
MaxTimeout == 2        \* timeout_seconds   is drawn from 1..MaxTimeout
MaxAttempts == 2       \* half_open_attempts is drawn from 1..MaxAttempts
MaxTime == 4           \* the clock runs over 0..MaxTime
MaxFailures == 4       \* cap on failure_count (unbounded in the code)
MaxIterations == 3     \* max_iterations is drawn from 0..MaxIterations
MaxMaxFacts == 2       \* max_facts of a store is drawn from 1..MaxMaxFacts
MaxAdds == 3           \* add_observation calls made on one store
MaxUpdates == 1        \* update_confidence_scores calls made on one store
MaxCapacity == 2       \* bucket_capacity is drawn from 0..MaxCapacity
MaxRate == 2           \* requests_per_second is drawn from 0..MaxRate halves per second
MaxLimiterTime == 3    \* the clock of the limiter runs over 0..MaxLimiterTime
MaxConsumes == 4       \* _consume_token calls made on one limiter
MaxTTL == 2            \* ttl arguments and default_ttl are at most MaxTTL clock steps
MaxCacheTime == 3      \* the clock of the cache runs over 0..MaxCacheTime
MaxStoreTime == 1      \* the clock of the store runs over 0..MaxStoreTime

\* ------------------------------------------------------------- constants
None == -1

CLOSED == "closed"
OPEN == "open"
HALF_OPEN == "half_open"

VARIABLES
    \* CircuitBreaker instance
    cb,                     \* [state, failure_count, last_failure_time, half_open_success_count]
    config,                 \* CircuitBreakerConfig
    now,                    \* time.time()
    cb_pc,                  \* position of the caller of execute_with_circuit_breaker
    fn_calls,               \* invocations of func made by the current/last call
    call_parity,            \* parity of the number of execute_with_circuit_breaker calls
    fails_since_success,    \* observer: failing func calls since the last successful one
    succ_since_half_open,   \* observer: successful func calls in a row since entering HALF_OPEN
    cb_error,               \* the exception func raised and the one the caller received
    \* Controller.process_query
    pc,                     \* position inside process_query
    max_iterations,         \* self.max_iterations
    i,                      \* loop variable of "for i in range(self.max_iterations)"
    consecutive_tool_failures,
    facts,                  \* memory.information_store.facts, in insertion order
    action_selection,       \* ActionSelection of the current iteration
    completion,             \* CompletionDecision.is_complete of the current iteration
    decision,               \* its confidence and reasoning
    check_outcome,          \* observer: what the completion backend did in the last check
    tool_response,          \* ToolResponse of the last tool dispatch
    result,                 \* value returned by process_query
    llm_calls,              \* observer: backend calls made in the current iteration
    iterations,             \* observer: iterations started by the current run
    consec_error_responses, \* observer: tool iterations in a row whose metadata has "error"
    executed,               \* observer: capability whose execute() ran in the last dispatch
    answer_parts,           \* the parts of the synthesized answer in result
    \* WorkingMemoryManager
    store,                  \* self.memory: [facts, sources, confidence_scores, relationships, query_state]
    max_facts,              \* self.max_facts
    clock,                  \* datetime.now(), in ticks of SecondsPerTick
    store_op,               \* observer: the last operation and what it did
    adds,                   \* observer: add_observation calls so far
    updates,                \* observer: update_confidence_scores calls so far
    used_ids,               \* observer: ids given to facts so far
    \* RateLimiter
    rl_config,              \* self.config: [requests_per_second, bucket_capacity]
    limiter,                \* [tokens, last_refill, usage_stats], each keyed by endpoint
    rl_now,                 \* time.time()
    rl_pc,                  \* position inside queue_request
    rl_endpoint,            \* endpoint of the queue_request in progress
    rl_last,                \* observer: endpoint and result of the last _consume_token
    rl_calls,               \* observer: _consume_token calls made, by endpoint
    rl_fn_calls,            \* observer: calls of func made by the current queue_request
    rl_grants,              \* observer: granted _consume_token calls, by endpoint and time
    rl_since_reset,         \* observer: granted and refused calls since reset_usage_stats
    \* CacheManager
    default_ttl,            \* self.default_ttl
    cache_file,             \* the file of one key under cache_dir
    cache_now,              \* time.time()
    cache_last,             \* observer: the last whole call made on the cache
    stored,                 \* observer: the content the file was last written with
    readers                 \* the get calls running concurrently, by caller

cbVars == <<cb, config, now, cb_pc, fn_calls, call_parity, fails_since_success,
            succ_since_half_open, cb_error>>
ctlVars == <<pc, max_iterations, i, consecutive_tool_failures, facts, action_selection,
             completion, decision, check_outcome, tool_response, result, llm_calls,
             iterations, consec_error_responses, executed, answer_parts>>
memVars == <<store, max_facts, clock, store_op, adds, updates, used_ids>>
rlVars == <<rl_config, limiter, rl_now, rl_pc, rl_endpoint, rl_last, rl_calls, rl_fn_calls,
            rl_grants, rl_since_reset>>
cacheVars == <<default_ttl, cache_file, cache_now, cache_last, stored, readers>>
vars == <<cb, config, now, cb_pc, fn_calls, call_parity, fails_since_success,
          succ_since_half_open, cb_error, pc, max_iterations, i, consecutive_tool_failures,
          facts, action_selection, completion, decision, check_outcome,
          tool_response, result, llm_calls,
          iterations, consec_error_responses, executed, answer_parts,
          store, max_facts, clock, store_op, adds, updates, used_ids,
          rl_config, limiter, rl_now, rl_pc, rl_endpoint, rl_last, rl_calls, rl_fn_calls,
          rl_grants, rl_since_reset,
          default_ttl, cache_file, cache_now, cache_last, stored, readers>>

(***************************************************************************)
(*                            CircuitBreaker                               *)
(***************************************************************************)

Configs ==
    [failure_threshold : 1..MaxThreshold,
     timeout_seconds : 1..MaxTimeout,
     half_open_attempts : 1..MaxAttempts]

\* CircuitBreaker.__init__
NewBreaker ==
    [state |-> CLOSED, failure_count |-> 0, last_failure_time |-> None,
     half_open_success_count |-> 0]

should_attempt_reset_strict(b, t) ==
    IF b.last_failure_time = None
    THEN FALSE
    ELSE t - b.last_failure_time > config.timeout_seconds

should_attempt_reset_early(b, t) ==
    IF b.last_failure_time = None
    THEN FALSE
    ELSE t - b.last_failure_time >= config.timeout_seconds - 1

should_attempt_reset(b, t) ==
    IF b.last_failure_time = None
    THEN FALSE
    ELSE t - b.last_failure_time >= config.timeout_seconds

transition_to_half_open(b) ==
    [b EXCEPT !.state = HALF_OPEN, !.half_open_success_count = 0]

trip(b) == [b EXCEPT !.state = OPEN]

reset_keeping_count(b) ==
    [b EXCEPT !.state = CLOSED, !.last_failure_time = None,
              !.half_open_success_count = 0]

reset(b) ==
    [b EXCEPT !.state = CLOSED, !.failure_count = 0, !.last_failure_time = None,
              !.half_open_success_count = 0]

on_success_always_reset(b) == reset(b)

on_success_late(b) ==
    IF b.state = HALF_OPEN
    THEN LET b1 == [b EXCEPT !.half_open_success_count = @ + 1]
         IN IF b1.half_open_success_count > config.half_open_attempts
            THEN reset(b1) ELSE b1
    ELSE reset(b)

on_success(b) ==
    IF b.state = HALF_OPEN
    THEN LET b1 == [b EXCEPT !.half_open_success_count = @ + 1]
         IN IF b1.half_open_success_count >= config.half_open_attempts
            THEN reset(b1) ELSE b1
    ELSE reset(b)

on_failure_strict(b, t) ==
    LET b1 == [b EXCEPT !.failure_count = @ + 1, !.last_failure_time = t]
    IN IF b1.state = HALF_OPEN THEN trip(b1)
       ELSE IF b1.failure_count > config.failure_threshold THEN trip(b1)
       ELSE b1

on_failure_closed_only(b, t) ==
    LET b1 == [b EXCEPT !.failure_count = @ + 1, !.last_failure_time = t]
    IN IF b1.state = CLOSED /\ b1.failure_count >= config.failure_threshold
       THEN trip(b1)
       ELSE b1

on_failure_untimed(b, t) ==
    LET b1 == [b EXCEPT !.failure_count = @ + 1]
    IN IF b1.state = HALF_OPEN THEN trip(b1)
       ELSE IF b1.failure_count >= config.failure_threshold THEN trip(b1)
       ELSE b1

on_failure(b, t) ==
    LET b1 == [b EXCEPT !.failure_count = @ + 1, !.last_failure_time = t]
    IN IF b1.state = HALF_OPEN THEN trip(b1)
       ELSE IF b1.failure_count >= config.failure_threshold THEN trip(b1)
       ELSE b1

\* exceptions func can raise, and the one the breaker raises itself
FuncErrors == {"ConnectionError", "ValueError"}
BreakerOpenError == "Circuit breaker is OPEN"
NoError == [func |-> "none", caller |-> "none"]

reraise_wrapped(e) == "Exception"

\* except Exception as e: ...; raise -- the exception being handled goes on
reraise(e) == e

rejected_restarting_timer(b, t) == [b EXCEPT !.last_failure_time = t]

\* the rejection branch: a log line and the raise, the breaker is not touched
rejected(b, t) == b

\* time.time() advances (at any point, also while func is running)
Tick ==
    /\ now < MaxTime
    /\ now' = now + 1
    /\ UNCHANGED <<cb, config, cb_pc, fn_calls, call_parity, fails_since_success,
                   succ_since_half_open, cb_error>>

\* execute_with_circuit_breaker up to and including the invocation of func:
\* the OPEN check, then either the rejection or func(*args, **kwargs)
RunBegin ==
    /\ cb_pc # "in_fn"
    /\ call_parity' = 1 - call_parity
    /\ IF cb.state = OPEN
       THEN IF should_attempt_reset(cb, now)
            THEN /\ cb' = transition_to_half_open(cb)
                 /\ succ_since_half_open' = 0
                 /\ cb_pc' = "in_fn"
                 /\ fn_calls' = 1
                 /\ cb_error' = NoError
            ELSE /\ cb' = rejected(cb, now)
                 /\ succ_since_half_open' = succ_since_half_open
                 /\ cb_pc' = "rejected"
                 /\ fn_calls' = 0
                 /\ cb_error' = [func |-> "none", caller |-> BreakerOpenError]
       ELSE /\ cb' = cb
            /\ succ_since_half_open' = succ_since_half_open
            /\ cb_pc' = "in_fn"
            /\ fn_calls' = 1
            /\ cb_error' = NoError
    /\ UNCHANGED <<config, now, fails_since_success>>

\* func returned: _on_success, then the result is returned to the caller
FnReturns ==
    /\ cb_pc = "in_fn"
    /\ cb' = on_success(cb)
    /\ cb_pc' = "returned"
    /\ fails_since_success' = 0
    /\ succ_since_half_open' =
           IF cb.state = HALF_OPEN THEN succ_since_half_open + 1 ELSE succ_since_half_open
    /\ UNCHANGED <<config, now, fn_calls, call_parity, cb_error>>

\* func raised: _on_failure, then the exception is re-raised to the caller
FnRaises ==
    /\ cb_pc = "in_fn"
    /\ cb.failure_count < MaxFailures
    /\ cb' = on_failure(cb, now)
    /\ cb_pc' = "raised"
    /\ \E e \in FuncErrors : cb_error' = [func |-> e, caller |-> reraise(e)]
    /\ fails_since_success' = fails_since_success + 1
    /\ succ_since_half_open' = 0
    /\ UNCHANGED <<config, now, fn_calls, call_parity>>

CBInit ==
    /\ cb = NewBreaker
    /\ config \in Configs
    /\ now = 0
    /\ cb_pc = "idle"
    /\ fn_calls = 0
    /\ call_parity = 0
    /\ fails_since_success = 0
    /\ succ_since_half_open = 0
    /\ cb_error = NoError

(***************************************************************************)
(*                               Controller                                *)
(***************************************************************************)

max_consecutive_tool_failures == 3

\* initialize_tools: the capability registry
Tools == {"web_search", "wikipedia"}
\* the capability a fallback decision names
DefaultTool == "web_search"
\* a name the action backend may produce that is not in the registry
UnknownTool == "unknown_tool"

ActionTypes == {"tool", "plan", "ask", "stop"}

\* the texts process_query returns
RepeatedFailuresMsg == "Unable to complete task due to repeated tool failures."
NoActionMsg == "Unable to determine next action."
\* the text returned for a stop action when no fact is stored
NoInformationMsg == "Unable to determine next action."
OnlyFailuresMsg == "Unable to complete task due to tool failures."
MaxIterationsMsg == "Reached maximum iterations without completing the task."
NoFactsSynthesisMsg == "Unable to synthesize an answer: No information was gathered."
SynthesizedAnswer == "## Answer ..."

\* What a capability's execute(query) can do: return a response without an
\* error, return its own error response (metadata {"error": True}), or raise
\* an exception whose str() is the given message (possibly empty).
ToolBehaviours ==
    { [kind |-> "ok", msg |-> "None"],
      [kind |-> "error_response", msg |-> "True"],
      [kind |-> "raises", msg |-> "Network error"],
      [kind |-> "raises", msg |-> ""] }

\* handle_tool_execution: metadata["error"] is rendered as the Python value
\* ("None" stands for a missing key), content by its kind.
handle_tool_execution(tool_name, beh) ==
    IF tool_name \in Tools
    THEN IF beh.kind = "raises"
         THEN [content |-> "Error executing tool", error |-> beh.msg]
         ELSE IF beh.kind = "error_response"
              THEN [content |-> "Error searching", error |-> beh.msg]
              ELSE [content |-> "Y", error |-> "None"]
    ELSE [content |-> "Error: Tool not found", error |-> "tool_not_found"]

\* tool_response.metadata.get("error") used as a condition: Python truthiness
metadata_error_truthy(resp) == resp.error \notin {"None", ""}

\* "error" is a key of tool_response.metadata
metadata_has_error(resp) == resp.error # "None"

\* process_observation: f"Observed: {content}"
process_observation(resp) == <<"Observed: ", resp.content>>

is_error_fact_any(fact) == TRUE

\* "Error executing tool" in fact.content
is_error_fact(fact) == fact.content[2] = "Error executing tool"

\* What the final-synthesis call of the completion client can give: a parsed
\* SynthesizedAnswer, an exception, or a response without a parsed answer
SynthesisBackendResults == {"answer", "raises", "no_parsed"}
\* the answer text of the backend, which is the backend's own wording
LLMAnswer == <<"LLM answer">>

\* construct_narrative: one line "- {fact.content}" per fact
construct_narrative(fs) == [k \in 1..Len(fs) |-> fs[k].content]
generate_citations_unnamed(fs) == [k \in 1..Len(fs) |-> "source"]

\* generate_citations: "## Sources:" and one line "{i}. {fact.source}" per fact
generate_citations(fs) == [k \in 1..Len(fs) |-> fs[k].source]

NoParts ==
    [llm |-> "none", body |-> <<>>, reasoning |-> <<>>, confidence_report |-> "none",
     sources |-> <<>>]

\* the report of the LLM branch is a literal; the manual branch asks the
\* confidence scorer
FixedReport == "Overall confidence: 0.8 (LLM-based synthesis)"
ComputedReport == "generate_confidence_report(calculate_confidence_score(memory, query))"

\* _perform_final_reasoning: the SynthesizedAnswer it returns for each outcome
\* of completion_client.call
perform_final_reasoning(fs, syn) ==
    CASE syn = "answer" ->
           [answer |-> <<LLMAnswer>>, reasoning_steps |-> <<"LLM step">>]
      [] syn = "no_parsed" ->
           [answer |-> construct_narrative(fs),
            reasoning_steps |-> <<"Fallback due to LLM parsing failure">>]
      [] OTHER ->
           [answer |-> construct_narrative(fs),
            reasoning_steps |-> <<"Fallback due to LLM error">>]

\* the manual branch of synthesize_answer: narrative, computed report, citations
narrative_path(fs) ==
    [body |-> construct_narrative(fs), reasoning |-> <<>>,
     confidence_report |-> ComputedReport, sources |-> generate_citations(fs)]

\* the parts synthesize_answer joins when completion_client and the prompt
\* are set: _perform_final_reasoning does not raise, so the LLM branch returns
synthesis_parts(fs, syn) ==
    IF fs = <<>> THEN NoParts
    ELSE [llm |-> syn,
          body |-> perform_final_reasoning(fs, syn).answer,
          reasoning |-> perform_final_reasoning(fs, syn).reasoning_steps,
          confidence_report |-> FixedReport,
          sources |-> generate_citations(fs)]

\* SynthesisEngine.synthesize_answer: always text
synthesize_answer(fs) ==
    IF fs = <<>> THEN NoFactsSynthesisMsg ELSE SynthesizedAnswer

\* process_action_selection: a valid decision is passed through; an invalid
\* action type, an unparseable result or a raising backend yields the
\* fallback decision (tool on the default capability)
FallbackAction == [action_type |-> "tool", action_name |-> DefaultTool]

ActionBackendResults ==
    [action_type : {"tool"}, action_name : Tools \cup {UnknownTool}]
    \cup [action_type : ActionTypes \ {"tool"}, action_name : {"none"}]
    \cup {[action_type |-> "invalid", action_name |-> "none"]}

process_action_selection(r) ==
    IF r.action_type \in ActionTypes THEN r ELSE FallbackAction

\* What completion_client.call(prompt, parser) can give: an exception; a
\* response whose "parsed" holds a decision; one whose "parsed" does not
\* validate as a CompletionDecision; one whose "content" has to be parsed and
\* either yields a decision or cannot be parsed. is_complete is what the
\* backend's text says.
CompletionFailureKinds == {"raises", "invalid_parsed", "unparseable_content"}

CompletionBackendResults ==
    [kind : {"parsed", "content"} \cup (CompletionFailureKinds \ {"raises"}),
     is_complete : BOOLEAN]
    \cup {[kind |-> "raises", is_complete |-> FALSE]}

\* str(e) of the exception of each failure
CompletionError(kind) ==
    CASE kind = "raises" -> "Connection error"
      [] kind = "invalid_parsed" -> "validation error for CompletionDecision"
      [] kind = "unparseable_content" -> "Failed to parse CompletionDecision"

\* the fallback decision of the except branch
FallbackDecision(e) ==
    [is_complete |-> FALSE, confidence |-> 0,
     reasoning |-> <<"Error in LLM completion check: ", e>>]

process_completion_decision_trusting(r) ==
    [is_complete |-> r.is_complete, confidence |-> 1, reasoning |-> <<"backend">>]

\* process_completion_decision: the decision of the backend, or the fallback
\* decision when the call or the parsing raises
process_completion_decision(r) ==
    IF r.kind \in CompletionFailureKinds
    THEN FallbackDecision(CompletionError(r.kind))
    ELSE [is_complete |-> r.is_complete, confidence |-> 1, reasoning |-> <<"backend">>]

NoDecision == [confidence |-> 0, reasoning |-> <<>>]

NoAction == [action_type |-> "none", action_name |-> "none"]
NoResponse == [content |-> "", error |-> "None"]
NoCalls == [think |-> 0, select |-> 0, check |-> 0]

LoopContinues_off_by_one(k) == k <= max_iterations

NextPhase_skipping_check(phase) ==
    CASE phase = "think" -> "select"
      [] phase = "select" -> "observe"
      [] phase = "check" -> "observe"

\* the order of the statements of the loop body: thoughts, action selection,
\* completion check, then the completion test and the dispatch
NextPhase(phase) ==
    CASE phase = "think" -> "select"
      [] phase = "select" -> "check"
      [] phase = "check" -> "observe"

\* for i in range(self.max_iterations)
LoopContinues(k) == k < max_iterations

\* process_query is called: fresh WorkingMemoryManager, counters zeroed
ProcessQuery ==
    /\ pc \in {"idle", "done", "raised"}
    /\ pc' = "loop"
    /\ i' = 0
    /\ consecutive_tool_failures' = 0
    /\ facts' = <<>>
    /\ action_selection' = NoAction
    /\ completion' = FALSE
    /\ decision' = NoDecision
    /\ check_outcome' = "none"
    /\ tool_response' = NoResponse
    /\ result' = ""
    /\ llm_calls' = NoCalls
    /\ iterations' = 0
    /\ consec_error_responses' = 0
    /\ executed' = "none"
    /\ answer_parts' = NoParts
    /\ UNCHANGED max_iterations

\* head of the for loop: next iteration, or the loop is exhausted
LoopHead ==
    /\ pc = "loop"
    /\ IF LoopContinues(i)
       THEN /\ pc' = "think"
            /\ iterations' = iterations + 1
            /\ llm_calls' = NoCalls
            /\ executed' = "none"
            /\ result' = result
       ELSE /\ pc' = "done"
            /\ result' = MaxIterationsMsg
            /\ UNCHANGED <<iterations, llm_calls, executed>>
    /\ UNCHANGED <<max_iterations, answer_parts, decision, check_outcome, i, consecutive_tool_failures, facts,
                   action_selection, completion, tool_response,
                   consec_error_responses>>

\* process_thoughts: thinking_client.call is made outside any try block, so
\* an exception of the thinking backend leaves process_query
Think ==
    /\ pc = "think"
    /\ llm_calls' = [llm_calls EXCEPT !.think = @ + 1]
    /\ \E raises \in BOOLEAN :
           pc' = IF raises THEN "raised" ELSE NextPhase(pc)
    /\ UNCHANGED <<max_iterations, answer_parts, decision, check_outcome, i, consecutive_tool_failures, facts,
                   action_selection, completion, tool_response, result, iterations,
                   consec_error_responses, executed>>

SelectAction ==
    /\ pc = "select"
    /\ llm_calls' = [llm_calls EXCEPT !.select = @ + 1]
    /\ \E r \in ActionBackendResults :
           action_selection' = process_action_selection(r)
    /\ pc' = NextPhase(pc)
    /\ UNCHANGED <<max_iterations, answer_parts, decision, check_outcome, i, consecutive_tool_failures, facts,
                   completion, tool_response, result, iterations,
                   consec_error_responses, executed>>

CheckCompletion ==
    /\ pc = "check"
    /\ llm_calls' = [llm_calls EXCEPT !.check = @ + 1]
    /\ \E r \in CompletionBackendResults :
         LET d == process_completion_decision(r)
         IN /\ completion' = d.is_complete
            /\ decision' = [confidence |-> d.confidence, reasoning |-> d.reasoning]
            /\ check_outcome' = r.kind
    /\ pc' = NextPhase(pc)
    /\ UNCHANGED <<max_iterations, answer_parts, i, consecutive_tool_failures, facts,
                   action_selection, tool_response, result, iterations,
                   consec_error_responses, executed>>

returns_answer_never(is_complete) == FALSE

\* if completion.is_complete: the iteration ends with the answer, before the
\* observe phase
returns_answer(is_complete) == is_complete

\* if completion.is_complete: synthesize and return
Complete ==
    /\ pc = "observe"
    /\ returns_answer(completion)
    /\ result' = synthesize_answer(facts)
    /\ \E syn \in SynthesisBackendResults : answer_parts' = synthesis_parts(facts, syn)
    /\ pc' = "done"
    /\ UNCHANGED <<max_iterations, decision, check_outcome, i, consecutive_tool_failures, facts,
                   action_selection, completion, tool_response, llm_calls, iterations,
                   consec_error_responses, executed>>

\* action_type == "tool": execute, observe, store, track failures
ToolDispatch ==
    /\ pc = "observe"
    /\ ~returns_answer(completion)
    /\ action_selection.action_type = "tool"
    /\ \E beh \in ToolBehaviours :
         LET resp == handle_tool_execution(action_selection.action_name, beh)
             failures == consecutive_tool_failures + 1
         IN /\ tool_response' = resp
            /\ executed' = IF action_selection.action_name \in Tools
                           THEN action_selection.action_name ELSE "none"
            /\ facts' = Append(facts, [content |-> process_observation(resp),
                                       source |-> action_selection.action_name])
            /\ consec_error_responses' =
                   IF metadata_has_error(resp) THEN consec_error_responses + 1 ELSE 0
            /\ IF metadata_error_truthy(resp)
               THEN /\ consecutive_tool_failures' = failures
                    /\ IF failures >= max_consecutive_tool_failures
                       THEN /\ pc' = "done"
                            /\ result' = RepeatedFailuresMsg
                            /\ i' = i
                       ELSE /\ pc' = "loop"
                            /\ result' = result
                            /\ i' = i + 1
               ELSE /\ consecutive_tool_failures' = 0
                    /\ pc' = "loop"
                    /\ result' = result
                    /\ i' = i + 1
    /\ UNCHANGED <<max_iterations, answer_parts, decision, check_outcome, action_selection, completion, llm_calls, iterations>>

\* action_type == "stop"
StopDispatch ==
    /\ pc = "observe"
    /\ ~returns_answer(completion)
    /\ action_selection.action_type = "stop"
    /\ result' = IF facts = <<>>
                 THEN NoInformationMsg
                 ELSE IF \A k \in 1..Len(facts) : is_error_fact(facts[k])
                      THEN OnlyFailuresMsg
                      ELSE synthesize_answer(facts)
    /\ \E syn \in SynthesisBackendResults :
         answer_parts' = IF result' = synthesize_answer(facts)
                         THEN synthesis_parts(facts, syn) ELSE NoParts
    /\ pc' = "done"
    /\ UNCHANGED <<max_iterations, decision, check_outcome, i, consecutive_tool_failures, facts,
                   action_selection, completion, tool_response, llm_calls, iterations,
                   consec_error_responses, executed>>

\* any other action type
OtherDispatch ==
    /\ pc = "observe"
    /\ ~returns_answer(completion)
    /\ action_selection.action_type \notin {"tool", "stop"}
    /\ result' = NoActionMsg
    /\ pc' = "done"
    /\ UNCHANGED <<max_iterations, answer_parts, decision, check_outcome, i, consecutive_tool_failures, facts,
                   action_selection, completion, tool_response, llm_calls, iterations,
                   consec_error_responses, executed>>

CtlInit ==
    /\ pc = "idle"
    /\ max_iterations \in 0..MaxIterations
    /\ i = 0
    /\ consecutive_tool_failures = 0
    /\ facts = <<>>
    /\ action_selection = NoAction
    /\ completion = FALSE
    /\ decision = NoDecision
    /\ check_outcome = "none"
    /\ tool_response = NoResponse
    /\ result = ""
    /\ llm_calls = NoCalls
    /\ iterations = 0
    /\ consec_error_responses = 0
    /\ executed = "none"
    /\ answer_parts = NoParts

(***************************************************************************)
(*              WorkingMemoryManager (msa/memory/manager.py)               *)
(***************************************************************************)

\* confidences and credibilities are fractions n / ConfScale, kept as n
ConfScale == 2 ^ (MaxUpdates + 1)
DefaultConfidence == 0                 \* observation.get("confidence", 0.0)
DefaultCredibility == ConfScale \div 2 \* observation.get("source_credibility", 0.5)
DaySeconds == 24 * 60 * 60
SecondsPerTick == 36 * 60 * 60          \* one step of the clock of the store

Confidences == {0, ConfScale}
Credibilities == {DefaultCredibility, ConfScale}
Sources == {"web_search"}
causal_indicators == <<"because", "due to", "caused by", "leads to", "results in">>
\* a content is the sequence of its phrases
Contents == {<<"Observed: ", "Y">>, <<"Observed: ", "Y", "because", "Z">>}
Observations ==
    [content : Contents, source : Sources, confidence : Confidences,
     source_credibility : Credibilities]

EmptyFn == [x \in {} |-> 0]

\* f"fact_{n}"
FactId(n) == <<"fact_", n>>

InitialQuery == "q"

\* WorkingMemoryManager.__init__
NewStore ==
    [facts |-> <<>>, sources |-> EmptyFn, confidence_scores |-> EmptyFn,
     relationships |-> EmptyFn,
     query_state |-> [original_query |-> InitialQuery, current_focus |-> InitialQuery]]

FactIds(fs) == {fs[k].id : k \in 1..Len(fs)}
FactSet(fs) == {fs[k] : k \in 1..Len(fs)}

\* facts[fact_id] = fact on a dict: a new key goes last, an existing key keeps its place
DictPut(fs, fact) ==
    IF fact.id \in FactIds(fs)
    THEN [k \in 1..Len(fs) |-> IF fs[k].id = fact.id THEN fact ELSE fs[k]]
    ELSE Append(fs, fact)

Without(f, keys) == [k \in DOMAIN f \ keys |-> f[k]]

\* combined_score = 0.7 * confidence + 0.3 * recency, times 10 * ConfScale * DaySeconds
combined_score(fact, t) ==
    LET time_diff == (t - fact.timestamp) * SecondsPerTick
        recency == IF DaySeconds - time_diff > 0 THEN DaySeconds - time_diff ELSE 0
    IN 7 * fact.confidence * DaySeconds + 3 * ConfScale * recency

\* position k stands before position j after fact_scores.sort(reverse=True),
\* which is stable: equal scores keep their dict order
SortsBefore(fs, t, k, j) ==
    \/ combined_score(fs[k], t) > combined_score(fs[j], t)
    \/ combined_score(fs[k], t) = combined_score(fs[j], t) /\ k < j

\* ids of the facts_to_remove last entries of the sorted fact_scores
ToRemove(fs, limit, t) ==
    LET facts_to_remove == Len(fs) - limit
    IN {fs[k].id : k \in {n \in 1..Len(fs) :
            Cardinality({j \in 1..Len(fs) : SortsBefore(fs, t, n, j)}) < facts_to_remove}}

prune_memory_lenient(st, limit, t) ==
    IF Len(st.facts) <= limit + 1 THEN st
    ELSE LET removed == ToRemove(st.facts, limit, t)
         IN [st EXCEPT !.facts = SelectSeq(st.facts, LAMBDA f : f.id \notin removed),
                       !.confidence_scores = Without(st.confidence_scores, removed)]

\* prune_memory on a store
prune_memory(st, limit, t) ==
    IF Len(st.facts) <= limit THEN st
    ELSE LET removed == ToRemove(st.facts, limit, t)
         IN [st EXCEPT !.facts = SelectSeq(st.facts, LAMBDA f : f.id \notin removed),
                       !.confidence_scores = Without(st.confidence_scores, removed)]

upsert_source_never(sources, source_id, source_metadata) == sources

upsert_source_overwriting(sources, source_id, source_metadata) ==
    (source_id :> source_metadata) @@ sources

\* if source_id not in sources: sources[source_id] = source_metadata
upsert_source(sources, source_id, source_metadata) ==
    IF source_id \in DOMAIN sources THEN sources
    ELSE (source_id :> source_metadata) @@ sources

\* add_observation on a store, at time t
add_observation(st, observation, limit, t) ==
    LET fact_id == FactId(Len(st.facts) + 1)
        fact == [id |-> fact_id, content |-> observation.content,
                 source |-> observation.source, timestamp |-> t,
                 confidence |-> observation.confidence]
        source_id == observation.source
        source_metadata == [id |-> source_id,
                            credibility |-> observation.source_credibility,
                            retrieval_date |-> t]
        added == [st EXCEPT
                    !.facts = DictPut(st.facts, fact),
                    !.confidence_scores = (fact_id :> fact.confidence) @@ st.confidence_scores,
                    !.sources = upsert_source(st.sources, source_id, source_metadata)]
    IN IF Len(added.facts) > limit THEN prune_memory(added, limit, t) ELSE added

\* update_confidence_scores on a store
updated_confidence_sum(fact, source) == fact.confidence + source.credibility
updated_confidence(fact, source) == (fact.confidence + source.credibility) \div 2

update_confidence_scores_facts_only(st) ==
    LET new(fact) == IF fact.source \in DOMAIN st.sources
                     THEN updated_confidence(fact, st.sources[fact.source])
                     ELSE fact.confidence
    IN [st EXCEPT
          !.facts = [k \in 1..Len(st.facts) |-> [st.facts[k] EXCEPT !.confidence = new(st.facts[k])]]]

update_confidence_scores(st) ==
    LET new(fact) == IF fact.source \in DOMAIN st.sources
                     THEN updated_confidence(fact, st.sources[fact.source])
                     ELSE fact.confidence
        known == {fact \in FactSet(st.facts) : fact.source \in DOMAIN st.sources}
    IN [st EXCEPT
          !.facts = [k \in 1..Len(st.facts) |-> [st.facts[k] EXCEPT !.confidence = new(st.facts[k])]],
          !.confidence_scores = [id \in DOMAIN st.confidence_scores \cup {f.id : f \in known} |->
                IF \E f \in known : f.id = id
                THEN new(CHOOSE f \in known : f.id = id)
                ELSE st.confidence_scores[id]]]

\* TemporalReasoner.correlate_temporal_facts
correlate_temporal_facts(fs) ==
    {[type |-> "temporal", fact1_id |-> fs[k].id, fact2_id |-> fs[j].id,
      relationship |-> IF fs[k].timestamp < fs[j].timestamp THEN "before" ELSE "after",
      confidence |-> 8] :
        <<k, j>> \in {pr \in (1..Len(fs)) \X (1..Len(fs)) :
                        pr[1] < pr[2] /\ fs[pr[1]].timestamp # fs[pr[2]].timestamp}}

Abs(n) == IF n < 0 THEN -n ELSE n
Contains(content, phrase) == \E k \in 1..Len(content) : content[k] = phrase
IndicatorHit(f1, f2, n) ==
    Contains(f1.content, causal_indicators[n]) \/ Contains(f2.content, causal_indicators[n])
\* the first indicator of the list found in either content
FirstIndicator(f1, f2) ==
    causal_indicators[CHOOSE n \in 1..Len(causal_indicators) :
        IndicatorHit(f1, f2, n) /\ \A m \in 1..(n - 1) : ~IndicatorHit(f1, f2, m)]

\* TemporalReasoner.detect_causality
detect_causality(fs) ==
    {[type |-> "causal", fact1_id |-> fs[k].id, fact2_id |-> fs[j].id,
      relationship |-> "causal", confidence |-> 6,
      indicator |-> FirstIndicator(fs[k], fs[j])] :
        <<k, j>> \in {pr \in (1..Len(fs)) \X (1..Len(fs)) :
                        /\ pr[1] < pr[2]
                        /\ Abs(fs[pr[2]].timestamp - fs[pr[1]].timestamp) * SecondsPerTick <= DaySeconds
                        /\ \E n \in 1..Len(causal_indicators) : IndicatorHit(fs[pr[1]], fs[pr[2]], n)}}

\* f"{type}_{fact1_id}_{fact2_id}"
RelationshipId(r) == <<r.type, r.fact1_id, r.fact2_id>>

all_relationships(fs) == correlate_temporal_facts(fs) \cup detect_causality(fs)

\* infer_relationships on a store: each inferred relationship is put under its key
infer_relationships(st) ==
    LET inferred == all_relationships(st.facts)
        keys == {RelationshipId(r) : r \in inferred}
    IN [st EXCEPT !.relationships =
          [key \in DOMAIN st.relationships \cup keys |->
              IF key \in keys THEN CHOOSE r \in inferred : RelationshipId(r) = key
              ELSE st.relationships[key]]]

\* datetime.isoformat and its parse by model_validate
isoformat(t) == <<"iso", t>>
fromisoformat(x) == x[2]

\* serialize: memory.model_dump_json(); a relationship is dumped with the keys it has
serialize(st) ==
    [facts |-> [k \in 1..Len(st.facts) |->
                    [st.facts[k] EXCEPT !.timestamp = isoformat(st.facts[k].timestamp)]],
     sources |-> [id \in DOMAIN st.sources |->
                    [st.sources[id] EXCEPT !.retrieval_date = isoformat(st.sources[id].retrieval_date)]],
     confidence_scores |-> st.confidence_scores,
     relationships |-> st.relationships,
     query_state |-> st.query_state]

\* required fields of the Relationship model
RelationshipFields == {"id", "subject", "predicate", "object", "confidence"}

\* WorkingMemory.model_validate accepts the document
Validates(data) ==
    \A key \in DOMAIN data.relationships :
        RelationshipFields \subseteq DOMAIN data.relationships[key]

\* deserialize: json.loads and WorkingMemory.model_validate
deserialize(data) ==
    IF ~Validates(data) THEN [raised |-> TRUE, memory |-> NewStore]
    ELSE [raised |-> FALSE,
          memory |->
            [facts |-> [k \in 1..Len(data.facts) |->
                          [data.facts[k] EXCEPT !.timestamp = fromisoformat(data.facts[k].timestamp)]],
             sources |-> [id \in DOMAIN data.sources |->
                          [data.sources[id] EXCEPT
                              !.retrieval_date = fromisoformat(data.sources[id].retrieval_date)]],
             confidence_scores |-> data.confidence_scores,
             relationships |-> [key \in DOMAIN data.relationships |->
                          [field \in RelationshipFields |-> data.relationships[key][field]]],
             query_state |-> data.query_state]]

NoFactId == <<>>
Op(name) == [op |-> name, fact_id |-> NoFactId, reused |-> FALSE, overwrote |-> FALSE,
             lost |-> {}, raised |-> FALSE]

\* datetime.now() moves on
StoreTick ==
    /\ clock < MaxStoreTime
    /\ clock' = clock + 1
    /\ UNCHANGED <<store, max_facts, store_op, adds, updates, used_ids>>

AddObservation ==
    /\ adds < MaxAdds
    /\ \E observation \in Observations :
        LET fact_id == FactId(Len(store.facts) + 1)
            after == add_observation(store, observation, max_facts, clock)
            inserted == {f \in FactSet(DictPut(store.facts,
                            [id |-> fact_id, content |-> observation.content,
                             source |-> observation.source, timestamp |-> clock,
                             confidence |-> observation.confidence])) : f.id = fact_id}
        IN /\ store' = after
           /\ store_op' = [op |-> "add", fact_id |-> fact_id,
                           reused |-> fact_id \in used_ids,
                           overwrote |-> fact_id \in FactIds(store.facts),
                           lost |-> (FactSet(store.facts) \cup inserted) \ FactSet(after.facts),
                           raised |-> FALSE]
           /\ used_ids' = used_ids \cup {fact_id}
    /\ adds' = adds + 1
    /\ UNCHANGED <<max_facts, clock, updates>>

UpdateConfidenceScores ==
    /\ updates < MaxUpdates
    /\ store' = update_confidence_scores(store)
    /\ store_op' = Op("update")
    /\ updates' = updates + 1
    /\ UNCHANGED <<max_facts, clock, adds, used_ids>>

InferRelationships ==
    /\ store' = infer_relationships(store)
    /\ store_op' = Op("infer")
    /\ UNCHANGED <<max_facts, clock, adds, updates, used_ids>>

PruneMemory ==
    /\ store' = prune_memory(store, max_facts, clock)
    /\ store_op' = [Op("prune") EXCEPT !.lost = FactSet(store.facts) \ FactSet(store'.facts)]
    /\ UNCHANGED <<max_facts, clock, adds, updates, used_ids>>

\* deserialize(serialize()): on a validation error self.memory is left as it was
SerializeDeserialize ==
    LET loaded == deserialize(serialize(store))
    IN /\ store' = IF loaded.raised THEN store ELSE loaded.memory
       /\ store_op' = [Op("deserialize") EXCEPT !.raised = loaded.raised]
       /\ UNCHANGED <<max_facts, clock, adds, updates, used_ids>>

MemInit ==
    /\ store = NewStore
    /\ max_facts \in 1..MaxMaxFacts
    /\ clock = 0
    /\ store_op = Op("init")
    /\ adds = 0
    /\ updates = 0
    /\ used_ids = {}

(***************************************************************************)
(*                  RateLimiter (msa/tools/rate_limiter.py)                *)
(***************************************************************************)

\* tokens and rates are kept in units of 1 / TokenScale
TokenScale == 2
Endpoints == {"web_search", "wikipedia"}

LimiterConfigs ==
    [requests_per_second : 0..MaxRate, bucket_capacity : 0..MaxCapacity]

\* RateLimiter.__init__
NewLimiter == [tokens |-> EmptyFn, last_refill |-> EmptyFn, usage_stats |-> EmptyFn]

Min(a, b) == IF a < b THEN a ELSE b

new_tokens_any_rate(time_elapsed, cfg) == time_elapsed * TokenScale

\* new_tokens = time_elapsed * requests_per_second
new_tokens(time_elapsed, cfg) == time_elapsed * cfg.requests_per_second

refill_tokens_uncapped(lim, cfg, endpoint, t) ==
    IF endpoint \notin DOMAIN lim.last_refill
    THEN [lim EXCEPT !.last_refill = (endpoint :> t) @@ @,
                     !.tokens = (endpoint :> cfg.bucket_capacity * TokenScale) @@ @]
    ELSE [lim EXCEPT
            !.tokens[endpoint] = @ + new_tokens(t - lim.last_refill[endpoint], cfg),
            !.last_refill[endpoint] = t]

\* _refill_tokens(endpoint) at time t
refill_tokens(lim, cfg, endpoint, t) ==
    IF endpoint \notin DOMAIN lim.last_refill
    THEN [lim EXCEPT !.last_refill = (endpoint :> t) @@ @,
                     !.tokens = (endpoint :> cfg.bucket_capacity * TokenScale) @@ @]
    ELSE [lim EXCEPT
            !.tokens[endpoint] =
                Min(cfg.bucket_capacity * TokenScale,
                    @ + new_tokens(t - lim.last_refill[endpoint], cfg)),
            !.last_refill[endpoint] = t]

\* the part of _consume_token before the test: lazy initialisation and refill
prepared(lim, cfg, endpoint, t) ==
    LET stats == IF endpoint \in DOMAIN lim.usage_stats THEN lim.usage_stats
                 ELSE (endpoint :> [requests |-> 0, throttled |-> 0]) @@ lim.usage_stats
        buckets == IF endpoint \in DOMAIN lim.tokens
                   THEN IF endpoint \in DOMAIN lim.last_refill THEN lim
                        ELSE [lim EXCEPT
                                !.tokens[endpoint] = cfg.bucket_capacity * TokenScale,
                                !.last_refill = (endpoint :> t) @@ @]
                   ELSE [lim EXCEPT
                           !.tokens = (endpoint :> cfg.bucket_capacity * TokenScale) @@ @,
                           !.last_refill = (endpoint :> t) @@ @]
    IN refill_tokens([buckets EXCEPT !.usage_stats = stats], cfg, endpoint, t)

\* _consume_token grants: self.tokens[endpoint] >= 1.0 after the refill
grants(lim, cfg, endpoint, t) ==
    prepared(lim, cfg, endpoint, t).tokens[endpoint] >= TokenScale

consume_token_always_taking(lim, cfg, endpoint, t) ==
    LET p == prepared(lim, cfg, endpoint, t)
    IN IF p.tokens[endpoint] >= TokenScale
       THEN [p EXCEPT !.tokens[endpoint] = @ - TokenScale,
                      !.usage_stats[endpoint].requests = @ + 1]
       ELSE [p EXCEPT !.tokens[endpoint] = @ - TokenScale,
                      !.usage_stats[endpoint].throttled = @ + 1]

\* _consume_token(endpoint) at time t: the limiter afterwards
consume_token(lim, cfg, endpoint, t) ==
    LET p == prepared(lim, cfg, endpoint, t)
    IN IF p.tokens[endpoint] >= TokenScale
       THEN [p EXCEPT !.tokens[endpoint] = @ - TokenScale,
                      !.usage_stats[endpoint].requests = @ + 1]
       ELSE [p EXCEPT !.usage_stats[endpoint].throttled = @ + 1]

TotalCalls == rl_calls["web_search"] + rl_calls["wikipedia"]

\* the effect of one _consume_token call on the limiter and the observers
Consumed(endpoint) ==
    /\ TotalCalls < MaxConsumes
    /\ limiter' = consume_token(limiter, rl_config, endpoint, rl_now)
    /\ rl_last' = [endpoint |-> endpoint,
                   granted |-> grants(limiter, rl_config, endpoint, rl_now)]
    /\ rl_calls' = [rl_calls EXCEPT ![endpoint] = @ + 1]
    /\ rl_grants' = IF grants(limiter, rl_config, endpoint, rl_now)
                     THEN [rl_grants EXCEPT ![endpoint][rl_now] = @ + 1]
                     ELSE rl_grants
    /\ rl_since_reset' =
           IF grants(limiter, rl_config, endpoint, rl_now)
           THEN [rl_since_reset EXCEPT ![endpoint].granted = @ + 1]
           ELSE [rl_since_reset EXCEPT ![endpoint].refused = @ + 1]

\* time.time() moves on
LimiterTick ==
    /\ rl_now < MaxLimiterTime
    /\ rl_now' = rl_now + 1
    /\ UNCHANGED <<rl_config, limiter, rl_pc, rl_endpoint, rl_last, rl_calls, rl_grants, rl_since_reset, rl_fn_calls>>

\* a direct _consume_token(endpoint) call
ConsumeToken ==
    /\ rl_pc = "idle"
    /\ \E endpoint \in Endpoints : Consumed(endpoint)
    /\ UNCHANGED <<rl_config, rl_now, rl_pc, rl_endpoint, rl_fn_calls>>

reset_usage_stats_requests_only(lim) ==
    [lim EXCEPT !.usage_stats =
        [endpoint \in DOMAIN lim.usage_stats |-> [@[endpoint] EXCEPT !.requests = 0]]]

\* reset_usage_stats: both counts of every endpoint in usage_stats become 0
reset_usage_stats(lim) ==
    [lim EXCEPT !.usage_stats =
        [endpoint \in DOMAIN lim.usage_stats |-> [requests |-> 0, throttled |-> 0]]]

\* get_usage_stats(endpoint): the counts, zeros for an endpoint never used
get_usage_stats(lim, endpoint) ==
    IF endpoint \in DOMAIN lim.usage_stats THEN lim.usage_stats[endpoint]
    ELSE [requests |-> 0, throttled |-> 0]

ResetUsageStats ==
    /\ rl_pc = "idle"
    /\ limiter' = reset_usage_stats(limiter)
    /\ rl_since_reset' = [endpoint \in Endpoints |-> [granted |-> 0, refused |-> 0]]
    /\ UNCHANGED <<rl_config, rl_now, rl_pc, rl_endpoint, rl_last, rl_calls, rl_fn_calls,
                   rl_grants>>

\* positions of queue_request at which no call is in progress
QueueRequestOutcomes == {"returned", "func_raised", "zero_division"}

\* queue_request(endpoint, func) is called
QueueRequest ==
    /\ rl_pc \in {"idle"} \cup QueueRequestOutcomes
    /\ \E endpoint \in Endpoints : rl_endpoint' = endpoint
    /\ rl_pc' = "polling"
    /\ rl_fn_calls' = 0
    /\ UNCHANGED <<rl_config, limiter, rl_now, rl_last, rl_calls, rl_grants, rl_since_reset>>

\* where queue_request goes after a _consume_token that returned granted:
\* out of the loop, or on to sleep_time = 1.0 / requests_per_second
after_consume(granted, cfg) ==
    IF granted THEN "calling"
    ELSE IF cfg.requests_per_second = 0 THEN "zero_division"
    ELSE "sleeping"

\* while not self._consume_token(endpoint): sleep_time = 1.0 / rate
Poll ==
    /\ rl_pc = "polling"
    /\ Consumed(rl_endpoint)
    /\ rl_pc' = after_consume(grants(limiter, rl_config, rl_endpoint, rl_now), rl_config)
    /\ UNCHANGED <<rl_config, rl_now, rl_endpoint, rl_fn_calls>>

\* 1.0 / requests_per_second in clock ticks, rounded up
sleep_time(cfg) ==
    (TokenScale + cfg.requests_per_second - 1) \div cfg.requests_per_second

\* time.sleep(sleep_time) returns after at least sleep_time
Sleep ==
    /\ rl_pc = "sleeping"
    /\ \E t \in (rl_now + sleep_time(rl_config))..MaxLimiterTime : rl_now' = t
    /\ rl_pc' = "polling"
    /\ UNCHANGED <<rl_config, limiter, rl_endpoint, rl_last, rl_calls, rl_grants, rl_since_reset, rl_fn_calls>>

\* result = func(*args, **kwargs); return result
FuncReturns ==
    /\ rl_pc = "calling"
    /\ rl_fn_calls' = rl_fn_calls + 1
    /\ rl_pc' = "returned"
    /\ UNCHANGED <<rl_config, limiter, rl_now, rl_endpoint, rl_last, rl_calls, rl_grants, rl_since_reset>>

\* func raises and the error leaves queue_request
FuncRaises ==
    /\ rl_pc = "calling"
    /\ rl_fn_calls' = rl_fn_calls + 1
    /\ rl_pc' = "func_raised"
    /\ UNCHANGED <<rl_config, limiter, rl_now, rl_endpoint, rl_last, rl_calls, rl_grants, rl_since_reset>>

NoConsume == [endpoint |-> "", granted |-> FALSE]

\* RateLimiter(config)
RLInit ==
    /\ rl_config \in LimiterConfigs
    /\ limiter = NewLimiter
    /\ rl_now = 0
    /\ rl_pc = "idle"
    /\ rl_endpoint = ""
    /\ rl_last = NoConsume
    /\ rl_calls = [endpoint \in Endpoints |-> 0]
    /\ rl_grants = [endpoint \in Endpoints |-> [t \in 0..MaxLimiterTime |-> 0]]
    /\ rl_since_reset = [endpoint \in Endpoints |-> [granted |-> 0, refused |-> 0]]
    /\ rl_fn_calls = 0

(***************************************************************************)
(*                    CacheManager (msa/tools/cache.py)                    *)
(***************************************************************************)

default_ttl_seconds == 3600
CacheTickSeconds == 30 * 60             \* one step of the clock of the cache

\* default_ttl: the constructor default or the value of cache.default_ttl
DefaultTTLs == {1, default_ttl_seconds \div CacheTickSeconds}

\* a ttl argument: None or a number of clock steps
TTLArgs == {None} \cup 0..MaxTTL

\* values handed to set: plain data, data holding a datetime, and data
\* json.dump cannot serialise
PlainValue == [type |-> "str", text |-> "data"]
DatetimeValue == [type |-> "datetime", text |-> "2024-01-01T00:00:00"]
ObjectValue == [type |-> "object", text |-> "<object>"]
Values == {PlainValue, DatetimeValue, ObjectValue}

\* convert_datetime: a datetime becomes its isoformat() string
convert_datetime(value) ==
    IF value.type = "datetime" THEN [type |-> "str", text |-> value.text] ELSE value

Miss == [type |-> "None", text |-> ""]
Raised == [type |-> "raised", text |-> ""]
NoResult == [type |-> "pending", text |-> ""]

\* what the file of the key holds: nothing, an entry written by set, or
\* something that is not a well-formed entry
NoFile == [kind |-> "absent", timestamp |-> 0, content |-> Miss, ttl |-> 0]
InvalidJson == [kind |-> "invalid_json", timestamp |-> 0, content |-> Miss, ttl |-> 0]
CorruptKinds == {"invalid_json", "no_timestamp", "no_content"}

\* the ttl a call works with: if ttl is None: ttl = self.default_ttl
effective_ttl(ttl, dflt) == IF ttl = None THEN dflt ELSE ttl

is_expired_at_ttl(timestamp, ttl, dflt, t) == t - timestamp >= effective_ttl(ttl, dflt)

\* _is_expired: time.time() - timestamp > ttl
is_expired(timestamp, ttl, dflt, t) == t - timestamp > effective_ttl(ttl, dflt)

\* cache_file.exists()
exists(file) == file.kind # "absent"

\* with open(cache_file) as f: data = json.load(f)
json_load(file) ==
    CASE file.kind = "absent" -> "FileNotFoundError"
      [] file.kind = "invalid_json" -> "JSONDecodeError"
      [] OTHER -> "data"

\* the rest of the try block of get, run on the loaded data at time t
body(data, ttl, dflt, t) ==
    IF data.kind = "no_timestamp" THEN "KeyError"
    ELSE IF is_expired(data.timestamp, ttl, dflt, t) THEN "unlink"
    ELSE IF data.kind = "no_content" THEN "KeyError"
    ELSE "return"

handler_json_only(exc) ==
    IF exc = "JSONDecodeError" THEN "unlink_corrupt" ELSE "raise"

\* the except clauses of get: JSONDecodeError removes the file, every other
\* Exception returns None
handler(exc) ==
    IF exc = "JSONDecodeError" THEN "unlink_corrupt" ELSE "return_None"

\* how get ends when the try block raised exc and left the file as it was
raised_in_get(exc, file) ==
    CASE handler(exc) = "unlink_corrupt" -> [result |-> Miss, file |-> NoFile]
      [] handler(exc) = "return_None" -> [result |-> Miss, file |-> file]
      [] OTHER -> [result |-> Raised, file |-> file]

\* get(key, ttl) by one caller at time t: what it returns and what it leaves
get(file, ttl, dflt, t) ==
    IF ~exists(file) THEN [result |-> Miss, file |-> file]
    ELSE IF json_load(file) # "data" THEN raised_in_get(json_load(file), file)
    ELSE CASE body(file, ttl, dflt, t) = "return" ->
                [result |-> file.content, file |-> file]
           [] body(file, ttl, dflt, t) = "unlink" ->
                [result |-> Miss, file |-> NoFile]
           [] OTHER -> raised_in_get(body(file, ttl, dflt, t), file)

\* set(key, value, ttl) at time t: the file it leaves; json.dump fails on a
\* value it cannot serialise after open(cache_file, "w") truncated the file
set(value, ttl, dflt, t) ==
    IF value.type = "object" THEN InvalidJson
    ELSE [kind |-> "entry", timestamp |-> t, content |-> convert_datetime(value),
          ttl |-> effective_ttl(ttl, dflt)]

NoCall == [op |-> "none", ttl |-> None, at |-> 0, before |-> NoFile, result |-> NoResult]
Call(op, ttl, returned) ==
    [op |-> op, ttl |-> ttl, at |-> cache_now, before |-> cache_file, result |-> returned]

\* time.time() moves on
CacheTick ==
    /\ cache_now < MaxCacheTime
    /\ cache_now' = cache_now + 1
    /\ UNCHANGED <<default_ttl, cache_file, cache_last, stored, readers>>

Get ==
    /\ \E ttl \in TTLArgs :
         /\ cache_file' = get(cache_file, ttl, default_ttl, cache_now).file
         /\ cache_last' = Call("get", ttl, get(cache_file, ttl, default_ttl, cache_now).result)
    /\ UNCHANGED <<default_ttl, cache_now, stored, readers>>

Set ==
    /\ \E value \in Values, ttl \in TTLArgs :
         /\ cache_file' = set(value, ttl, default_ttl, cache_now)
         /\ stored' = IF value.type = "object" THEN stored ELSE convert_datetime(value)
         /\ cache_last' = Call("set", ttl, Miss)
    /\ UNCHANGED <<default_ttl, cache_now, readers>>

\* invalidate(key): removes the file if it exists
Invalidate ==
    /\ cache_file' = NoFile
    /\ cache_last' = Call("invalidate", None, Miss)
    /\ UNCHANGED <<default_ttl, cache_now, stored, readers>>

\* the file is damaged from outside: its text is cut, or a field is lost
CorruptEntry ==
    /\ cache_file.kind = "entry"
    /\ \E kind \in CorruptKinds :
         cache_file' = IF kind = "invalid_json" THEN InvalidJson
                       ELSE [cache_file EXCEPT !.kind = kind]
    /\ cache_last' = Call("corrupt", None, Miss)
    /\ UNCHANGED <<default_ttl, cache_now, stored, readers>>

\* ---- get calls of several callers, step by step ----

Readers == {"r1", "r2"}

IdleReader ==
    [pc |-> "idle", ttl |-> None, data |-> NoFile, exc |-> "none", result |-> NoResult]

Returns(r, returned) ==
    readers' = [readers EXCEPT ![r].pc = "done", ![r].result = returned]

Goes(r, pc_) == readers' = [readers EXCEPT ![r].pc = pc_]

\* the try block raised exc in caller r
Handles(r, exc) ==
    readers' = [readers EXCEPT
        ![r].exc = exc,
        ![r].pc = IF handler(exc) = "unlink_corrupt" THEN "unlink_corrupt" ELSE "done",
        ![r].result = CASE handler(exc) = "unlink_corrupt" -> NoResult
                        [] handler(exc) = "return_None" -> Miss
                        [] OTHER -> Raised]

\* caller r calls get(key, ttl)
GetBegin(r) ==
    /\ readers[r].pc \in {"idle", "done"}
    /\ \E ttl \in TTLArgs :
         readers' = [readers EXCEPT ![r] = [IdleReader EXCEPT !.pc = "exists", !.ttl = ttl]]
    /\ UNCHANGED <<default_ttl, cache_file, cache_now, cache_last, stored>>

\* if not cache_file.exists(): return None
GetExists(r) ==
    /\ readers[r].pc = "exists"
    /\ IF exists(cache_file) THEN Goes(r, "open") ELSE Returns(r, Miss)
    /\ UNCHANGED <<default_ttl, cache_file, cache_now, cache_last, stored>>

\* with open(cache_file) as f: data = json.load(f)
GetLoad(r) ==
    /\ readers[r].pc = "open"
    /\ IF json_load(cache_file) = "data"
       THEN readers' = [readers EXCEPT ![r].pc = "loaded", ![r].data = cache_file]
       ELSE Handles(r, json_load(cache_file))
    /\ UNCHANGED <<default_ttl, cache_file, cache_now, cache_last, stored>>

\* the expiry test on the loaded data and the return of its content
GetBody(r) ==
    /\ readers[r].pc = "loaded"
    /\ LET b == body(readers[r].data, readers[r].ttl, default_ttl, cache_now)
       IN CASE b = "return" -> Returns(r, readers[r].data.content)
            [] b = "unlink" -> Goes(r, "unlink")
            [] OTHER -> Handles(r, b)
    /\ UNCHANGED <<default_ttl, cache_file, cache_now, cache_last, stored>>

\* cache_file.unlink() of the expired entry, inside the try block
GetUnlink(r) ==
    /\ readers[r].pc = "unlink"
    /\ IF exists(cache_file)
       THEN cache_file' = NoFile /\ Returns(r, Miss)
       ELSE UNCHANGED cache_file /\ Handles(r, "FileNotFoundError")
    /\ UNCHANGED <<default_ttl, cache_now, cache_last, stored>>

\* cache_file.unlink() of the corrupted entry, in a try block of its own
GetUnlinkCorrupt(r) ==
    /\ readers[r].pc = "unlink_corrupt"
    /\ cache_file' = NoFile
    /\ Returns(r, Miss)
    /\ UNCHANGED <<default_ttl, cache_now, cache_last, stored>>

\* files a cache directory can hold when the callers arrive
InitialFiles ==
    {NoFile, InvalidJson}
    \cup {[kind |-> k, timestamp |-> 0, content |-> convert_datetime(v), ttl |-> ttl] :
            k \in {"entry", "no_timestamp", "no_content"},
            v \in {PlainValue, DatetimeValue},
            ttl \in DefaultTTLs}

\* CacheManager(): an empty directory
CacheInit ==
    /\ default_ttl \in DefaultTTLs
    /\ cache_file = NoFile
    /\ cache_now = 0
    /\ cache_last = NoCall
    /\ stored = Miss
    /\ readers = [r \in Readers |-> IdleReader]

\* CacheManager() over a directory that already holds a file for the key
ReadersInit ==
    /\ default_ttl \in DefaultTTLs
    /\ cache_file \in InitialFiles
    /\ cache_now = 0
    /\ cache_last = NoCall
    /\ stored = cache_file.content
    /\ readers = [r \in Readers |-> IdleReader]

(***************************************************************************)
(*                            Specifications                               *)
(***************************************************************************)

CBNext ==
    \/ Tick /\ UNCHANGED <<ctlVars, memVars, rlVars, cacheVars>>
    \/ RunBegin /\ UNCHANGED <<ctlVars, memVars, rlVars, cacheVars>>
    \/ FnReturns /\ UNCHANGED <<ctlVars, memVars, rlVars, cacheVars>>
    \/ FnRaises /\ UNCHANGED <<ctlVars, memVars, rlVars, cacheVars>>

CtlNext ==
    \/ ProcessQuery /\ UNCHANGED <<cbVars, memVars, rlVars, cacheVars>>
    \/ LoopHead /\ UNCHANGED <<cbVars, memVars, rlVars, cacheVars>>
    \/ Think /\ UNCHANGED <<cbVars, memVars, rlVars, cacheVars>>
    \/ SelectAction /\ UNCHANGED <<cbVars, memVars, rlVars, cacheVars>>
    \/ CheckCompletion /\ UNCHANGED <<cbVars, memVars, rlVars, cacheVars>>
    \/ Complete /\ UNCHANGED <<cbVars, memVars, rlVars, cacheVars>>
    \/ ToolDispatch /\ UNCHANGED <<cbVars, memVars, rlVars, cacheVars>>
    \/ StopDispatch /\ UNCHANGED <<cbVars, memVars, rlVars, cacheVars>>
    \/ OtherDispatch /\ UNCHANGED <<cbVars, memVars, rlVars, cacheVars>>

FixedConfig ==
    [failure_threshold |-> 1, timeout_seconds |-> 1, half_open_attempts |-> 1]

FixedLimiterConfig == [requests_per_second |-> 1, bucket_capacity |-> 1]

\* the tool-side components, constructed and left alone
ToolsIdle ==
    /\ RLInit
    /\ rl_config = FixedLimiterConfig
    /\ CacheInit
    /\ default_ttl = 1

\* a circuit breaker used through execute_with_circuit_breaker
CBSpecInit ==
    /\ CBInit
    /\ CtlInit
    /\ max_iterations = 0
    /\ MemInit
    /\ max_facts = 1
    /\ ToolsIdle

SpecCB == CBSpecInit /\ [][CBNext]_vars

\* one Controller serving process_query calls
CtlSpecInit ==
    /\ CtlInit
    /\ CBInit
    /\ config = FixedConfig
    /\ MemInit
    /\ max_facts = 1
    /\ ToolsIdle

SpecCtl == CtlSpecInit /\ [][CtlNext]_vars

\* a Controller next to a circuit breaker that guards the same dependency
SysInit ==
    /\ CtlInit
    /\ max_iterations = 1
    /\ CBInit
    /\ config = FixedConfig
    /\ MemInit
    /\ max_facts = 1
    /\ ToolsIdle

SysNext == CBNext \/ CtlNext

SpecSys == SysInit /\ [][SysNext]_vars

\* one WorkingMemoryManager and its store
MemNext ==
    \/ StoreTick /\ UNCHANGED <<cbVars, ctlVars, rlVars, cacheVars>>
    \/ AddObservation /\ UNCHANGED <<cbVars, ctlVars, rlVars, cacheVars>>
    \/ UpdateConfidenceScores /\ UNCHANGED <<cbVars, ctlVars, rlVars, cacheVars>>
    \/ InferRelationships /\ UNCHANGED <<cbVars, ctlVars, rlVars, cacheVars>>
    \/ PruneMemory /\ UNCHANGED <<cbVars, ctlVars, rlVars, cacheVars>>
    \/ SerializeDeserialize /\ UNCHANGED <<cbVars, ctlVars, rlVars, cacheVars>>

MemSpecInit ==
    /\ MemInit
    /\ CBInit
    /\ config = FixedConfig
    /\ CtlInit
    /\ max_iterations = 0
    /\ ToolsIdle

SpecMem == MemSpecInit /\ [][MemNext]_vars

\* the same store driven only through add_observation, update_confidence_scores
\* and prune_memory
FactsNext ==
    \/ StoreTick /\ UNCHANGED <<cbVars, ctlVars, rlVars, cacheVars>>
    \/ AddObservation /\ UNCHANGED <<cbVars, ctlVars, rlVars, cacheVars>>
    \/ UpdateConfidenceScores /\ UNCHANGED <<cbVars, ctlVars, rlVars, cacheVars>>
    \/ PruneMemory /\ UNCHANGED <<cbVars, ctlVars, rlVars, cacheVars>>

SpecFacts == MemSpecInit /\ [][FactsNext]_vars

\* one RateLimiter used through _consume_token and queue_request
RLNext ==
    \/ LimiterTick /\ UNCHANGED <<cbVars, ctlVars, memVars, cacheVars>>
    \/ ConsumeToken /\ UNCHANGED <<cbVars, ctlVars, memVars, cacheVars>>
    \/ QueueRequest /\ UNCHANGED <<cbVars, ctlVars, memVars, cacheVars>>
    \/ Poll /\ UNCHANGED <<cbVars, ctlVars, memVars, cacheVars>>
    \/ Sleep /\ UNCHANGED <<cbVars, ctlVars, memVars, cacheVars>>
    \/ FuncReturns /\ UNCHANGED <<cbVars, ctlVars, memVars, cacheVars>>
    \/ FuncRaises /\ UNCHANGED <<cbVars, ctlVars, memVars, cacheVars>>

RLSpecInit ==
    /\ RLInit
    /\ CBInit
    /\ config = FixedConfig
    /\ CtlInit
    /\ max_iterations = 0
    /\ MemInit
    /\ max_facts = 1
    /\ CacheInit
    /\ default_ttl = 1

SpecRL == RLSpecInit /\ [][RLNext]_vars

\* everything but the cache, constructed and left alone
CacheAlone ==
    /\ CBInit
    /\ config = FixedConfig
    /\ CtlInit
    /\ max_iterations = 0
    /\ MemInit
    /\ max_facts = 1
    /\ RLInit
    /\ rl_config = FixedLimiterConfig

\* one CacheManager used by one caller
CacheNext ==
    \/ CacheTick /\ UNCHANGED <<cbVars, ctlVars, memVars, rlVars>>
    \/ Get /\ UNCHANGED <<cbVars, ctlVars, memVars, rlVars>>
    \/ Set /\ UNCHANGED <<cbVars, ctlVars, memVars, rlVars>>
    \/ Invalidate /\ UNCHANGED <<cbVars, ctlVars, memVars, rlVars>>
    \/ CorruptEntry /\ UNCHANGED <<cbVars, ctlVars, memVars, rlVars>>

CacheSpecInit == CacheInit /\ CacheAlone

SpecCache == CacheSpecInit /\ [][CacheNext]_vars

\* several callers running get on the same key at once
ReadersNext ==
    \/ CacheTick /\ UNCHANGED <<cbVars, ctlVars, memVars, rlVars>>
    \/ \E r \in Readers : GetBegin(r) /\ UNCHANGED <<cbVars, ctlVars, memVars, rlVars>>
    \/ \E r \in Readers : GetExists(r) /\ UNCHANGED <<cbVars, ctlVars, memVars, rlVars>>
    \/ \E r \in Readers : GetLoad(r) /\ UNCHANGED <<cbVars, ctlVars, memVars, rlVars>>
    \/ \E r \in Readers : GetBody(r) /\ UNCHANGED <<cbVars, ctlVars, memVars, rlVars>>
    \/ \E r \in Readers : GetUnlink(r) /\ UNCHANGED <<cbVars, ctlVars, memVars, rlVars>>
    \/ \E r \in Readers : GetUnlinkCorrupt(r) /\ UNCHANGED <<cbVars, ctlVars, memVars, rlVars>>

ReadersSpecInit == ReadersInit /\ CacheAlone

SpecReaders == ReadersSpecInit /\ [][ReadersNext]_vars

\* the same RateLimiter with its usage statistics read and reset in between
StatsNext ==
    \/ LimiterTick /\ UNCHANGED <<cbVars, ctlVars, memVars, cacheVars>>
    \/ ConsumeToken /\ UNCHANGED <<cbVars, ctlVars, memVars, cacheVars>>
    \/ ResetUsageStats /\ UNCHANGED <<cbVars, ctlVars, memVars, cacheVars>>

SpecStats == RLSpecInit /\ [][StatsNext]_vars

Spec == SpecCB

(***************************************************************************)
(*                                Claims                                   *)
(***************************************************************************)

\* a step that is a call of execute_with_circuit_breaker
IsRunCall == call_parity' # call_parity
\* a step in which func returns / raises inside execute_with_circuit_breaker
IsFnReturn == cb_pc = "in_fn" /\ cb_pc' = "returned"
IsFnRaise == cb_pc = "in_fn" /\ cb_pc' = "raised"
\* the timeout has (not) elapsed since the last recorded failure
TimeoutElapsed ==
    cb.last_failure_time # None /\ now - cb.last_failure_time >= config.timeout_seconds
TimeoutPending ==
    cb.last_failure_time # None /\ now - cb.last_failure_time < config.timeout_seconds

\* C1: process_query always returns a text answer and never raises, whatever
\* the thinking, action-selection and completion backends and the
\* capabilities do (stated as: the caller of process_query never receives an
\* exception).
C1_NeverRaises == pc # "raised"

\* C2: the breaker's state changes only by CLOSED->OPEN (failure_count has
\* reached failure_threshold), OPEN->HALF_OPEN (timeout elapsed),
\* HALF_OPEN->CLOSED (half_open_attempts successes in a row) or
\* HALF_OPEN->OPEN (a failure); no other state change occurs.
C2_OnlyLegalTransitions ==
    [][cb'.state # cb.state =>
          \/ /\ cb.state = CLOSED /\ cb'.state = OPEN
             /\ IsFnRaise
             /\ cb'.failure_count >= config.failure_threshold
          \/ /\ cb.state = OPEN /\ cb'.state = HALF_OPEN
             /\ IsRunCall
             /\ TimeoutElapsed
          \/ /\ cb.state = HALF_OPEN /\ cb'.state = CLOSED
             /\ IsFnReturn
             /\ succ_since_half_open' = config.half_open_attempts
          \/ /\ cb.state = HALF_OPEN /\ cb'.state = OPEN
             /\ IsFnRaise]_vars

\* a breaker that went round the whole cycle and closed again after two
\* half-open successes
C2_Witness ==
    /\ cb.state = CLOSED
    /\ cb_pc = "returned"
    /\ config.half_open_attempts = 2
    /\ succ_since_half_open = 2

\* C3: while the breaker is OPEN and less than timeout_seconds have elapsed
\* since the last recorded failure, every call raises the circuit-open error
\* and func is not invoked.
C3_OpenRejects ==
    [][(IsRunCall /\ cb.state = OPEN /\ TimeoutPending) =>
          (cb_pc' = "rejected" /\ fn_calls' = 0 /\ cb'.state = OPEN)]_vars

C3_Witness ==
    /\ cb_pc = "rejected"
    /\ cb.state = OPEN
    /\ fn_calls = 0
    /\ TimeoutPending

\* C4: starting from CLOSED, failure_threshold consecutive failing calls
\* leave the breaker OPEN, and it stays CLOSED as long as fewer than
\* failure_threshold failures have occurred since the last successful call.
C4_TripsAtThreshold ==
    [][/\ (cb'.state = CLOSED => fails_since_success' < config.failure_threshold)
       /\ (cb.state = CLOSED /\ IsFnRaise) =>
              cb'.state = IF fails_since_success' >= config.failure_threshold
                          THEN OPEN ELSE CLOSED]_vars

\* tripped from CLOSED by the second failure in a row
C4_Witness ==
    /\ cb.state = OPEN
    /\ cb_pc = "raised"
    /\ config.failure_threshold = 2
    /\ cb.failure_count = 2
    /\ fails_since_success = 2

\* C5: when the breaker is OPEN and at least timeout_seconds have elapsed
\* since the last failure, the next call moves it to HALF_OPEN and invokes
\* func exactly once.
C5_ResetAfterTimeout ==
    [][/\ (IsRunCall /\ cb.state = OPEN /\ TimeoutElapsed) =>
              (cb'.state = HALF_OPEN /\ cb_pc' = "in_fn" /\ fn_calls' = 1)
       /\ (~IsRunCall => fn_calls' = fn_calls)]_vars

\* admitted exactly at the timeout boundary
C5_Witness ==
    /\ cb.state = HALF_OPEN
    /\ cb_pc = "in_fn"
    /\ fn_calls = 1
    /\ cb.last_failure_time # None
    /\ now - cb.last_failure_time = config.timeout_seconds

\* C6: in HALF_OPEN the breaker returns to CLOSED exactly when
\* half_open_attempts successful calls have occurred in a row since it
\* entered HALF_OPEN, and then failure_count, last_failure_time and the
\* half-open success counter are cleared; after fewer successes it is still
\* HALF_OPEN.
C6_HalfOpenCloses ==
    [][(cb.state = HALF_OPEN /\ IsFnReturn) =>
          IF succ_since_half_open' = config.half_open_attempts
          THEN /\ cb'.state = CLOSED
               /\ cb'.failure_count = 0
               /\ cb'.last_failure_time = None
               /\ cb'.half_open_success_count = 0
          ELSE /\ succ_since_half_open' < config.half_open_attempts
               /\ cb'.state = HALF_OPEN]_vars

\* one success in HALF_OPEN, one more needed
C6_Witness ==
    /\ cb.state = HALF_OPEN
    /\ cb_pc = "returned"
    /\ succ_since_half_open = 1
    /\ config.half_open_attempts = 2

\* C7: any failing call while the breaker is HALF_OPEN moves it to OPEN
\* immediately, whatever failure_count and the half-open success counter are.
C7_HalfOpenFailureTrips ==
    [][(cb.state = HALF_OPEN /\ IsFnRaise) => cb'.state = OPEN]_vars

\* tripped from HALF_OPEN after one half-open success
C7_Witness ==
    /\ cb.state = OPEN
    /\ cb_pc = "raised"
    /\ cb.half_open_success_count = 1
    /\ cb.failure_count > config.failure_threshold

\* C8: process_query performs at most max_iterations iterations, each making
\* at most one Think, one SelectAction and one CheckCompletion call, and if
\* no iteration ends the run it returns the 'reached maximum iterations'
\* message.
C8_BoundedIterations ==
    [][/\ iterations' <= max_iterations
       /\ llm_calls'.think <= 1 /\ llm_calls'.select <= 1 /\ llm_calls'.check <= 1
       /\ (pc = "loop" /\ iterations = max_iterations) =>
              (pc' = "done" /\ result' = MaxIterationsMsg)
       /\ (pc = "loop" /\ pc' = "done") => iterations = max_iterations]_vars

C8_Witness ==
    /\ pc = "done"
    /\ result = MaxIterationsMsg
    /\ max_iterations >= 2
    /\ iterations = max_iterations
    /\ Len(facts) = max_iterations

\* C9: process_query returns the repeated-tool-failures message as soon as
\* three consecutive tool iterations each produced a response with an error
\* in its metadata, and a tool response without an error resets the
\* consecutive-failure count to zero.
C9_ThreeErrorResponsesAbort ==
    /\ consec_error_responses >= max_consecutive_tool_failures =>
           (pc = "done" /\ result = RepeatedFailuresMsg)
    /\ (pc = "loop" /\ ~metadata_has_error(tool_response)) =>
           consecutive_tool_failures = 0

\* C10: every capability invocation made by the Controller passes through a
\* circuit breaker: while the breaker is OPEN (and its timeout pending) the
\* capability is not executed and the rejected call counts as a tool failure.
C10_BreakerGuardsCapability ==
    [][(pc = "observe" /\ pc' # "observe" /\ cb.state = OPEN /\ TimeoutPending) =>
          (executed' = "none" /\
           (action_selection.action_type = "tool" /\ ~completion =>
                consecutive_tool_failures' = consecutive_tool_failures + 1))]_vars

\* C11: every add_observation gives the new fact an id that no fact of the
\* store has or has had, so it never overwrites a stored fact.
C11_FreshIds ==
    store_op.op = "add" => ~store_op.reused /\ ~store_op.overwrote

\* C12: once more than max_facts facts have been inserted one at a time, the
\* store holds exactly max_facts facts and every retained fact scores at least
\* as high as every inserted fact that the insertion dropped from the store.
C12_KeepsHighestScores ==
    (store_op.op = "add" /\ adds > max_facts) =>
        /\ Len(store.facts) = max_facts
        /\ \A dropped \in store_op.lost : \A kept \in FactSet(store.facts) :
              combined_score(kept, clock) >= combined_score(dropped, clock)

C14_RoundTrip ==
    LET loaded == deserialize(serialize(store))
    IN /\ ~loaded.raised
       /\ loaded.memory.facts = store.facts
       /\ loaded.memory.sources = store.sources
       /\ loaded.memory.relationships = store.relationships
       /\ loaded.memory.query_state = store.query_state

\* C15: when infer_relationships returns, the stored relationships are exactly
\* those derivable from the facts now in the store; none from an earlier call
\* survives that refers to a removed or replaced fact.
C15_RecomputedWholesale ==
    store_op.op = "infer" =>
        {store.relationships[key] : key \in DOMAIN store.relationships}
            = all_relationships(store.facts)

\* process_query returns from the stop branch
StopReturns ==
    /\ pc = "observe"
    /\ ~completion
    /\ action_selection.action_type = "stop"
    /\ pc' = "done"

\* C16: not complete, action stop, no fact stored: process_query returns the
\* 'no information' message, and that message differs from the one returned
\* for action types other than tool and stop.
C16_NoInformationMessage ==
    [][(StopReturns /\ facts = <<>>) =>
          (result' = NoInformationMsg /\ NoInformationMsg # NoActionMsg)]_vars

\* the responses handle_tool_execution gives for a failed tool call: unknown
\* tool, tool exception, or an error in the metadata of the response
FailedResponses ==
    {resp \in {handle_tool_execution(name, beh) :
                  name \in Tools \cup {UnknownTool}, beh \in ToolBehaviours} :
        metadata_has_error(resp)}

IsFailureObservation(fact) ==
    \E resp \in FailedResponses : fact.content = process_observation(resp)

\* C17: not complete, action stop, and every stored fact is the observation of
\* a failed tool call: process_query returns the 'only tool failures' message
\* and does not synthesize.
C17_OnlyFailuresMessage ==
    [][(/\ StopReturns
        /\ facts # <<>>
        /\ \A k \in 1..Len(facts) : IsFailureObservation(facts[k]))
       => result' = OnlyFailuresMsg]_vars

\* the texts SynthesisEngine.synthesize_answer produces
SynthesizedAnswers == {SynthesizedAnswer, NoFactsSynthesisMsg}

\* C18: every value process_query returns is a synthesized answer or one of
\* the two budget messages (consecutive failures, iterations).
C18_OnlyBudgetMessages ==
    pc = "done" => result \in SynthesizedAnswers \cup {RepeatedFailuresMsg, MaxIterationsMsg}

\* C18, amended: every value process_query returns is a synthesized answer
\* (on completion, or on stop with a fact that is no tool exception), a budget
\* message (three consecutive counted failures, or the loop exhausted), the
\* text for a stop with no fact or for an action other than tool and stop, or
\* the text for a stop where every fact records a tool exception.
C18_TerminalValues ==
    pc = "done" =>
        LET stop == ~completion /\ action_selection.action_type = "stop"
            exceptions_only ==
                \A k \in 1..Len(facts) : facts[k].content[2] = "Error executing tool"
        IN \/ /\ result = synthesize_answer(facts)
              /\ completion \/ (stop /\ facts # <<>> /\ ~exceptions_only)
           \/ /\ result = RepeatedFailuresMsg
              /\ ~completion
              /\ action_selection.action_type = "tool"
              /\ consecutive_tool_failures >= max_consecutive_tool_failures
           \/ /\ result = MaxIterationsMsg
              /\ i >= max_iterations
           \/ /\ result = NoInformationMsg
              /\ stop
              /\ facts = <<>>
           \/ /\ result = NoActionMsg
              /\ ~completion
              /\ action_selection.action_type \notin {"tool", "stop"}
           \/ /\ result = OnlyFailuresMsg
              /\ stop
              /\ facts # <<>>
              /\ exceptions_only

\* a run ended by a stop over tool exceptions only
C18_Witness ==
    /\ pc = "done"
    /\ action_selection.action_type = "stop"
    /\ facts # <<>>
    /\ result = OnlyFailuresMsg

\* C19: within an iteration Think, SelectAction, CheckCompletion and, only if
\* not complete, the capability call with its observation happen in this
\* order, once each; Think of the next iteration starts only after the
\* observation of the current one is stored.
C19_StrictOrder ==
    [][/\ llm_calls'.think > llm_calls.think =>
            /\ llm_calls = NoCalls
            /\ Len(facts) = iterations - 1
       /\ llm_calls'.select > llm_calls.select =>
            llm_calls = [think |-> 1, select |-> 0, check |-> 0]
       /\ llm_calls'.check > llm_calls.check =>
            llm_calls = [think |-> 1, select |-> 1, check |-> 0]
       /\ (Len(facts') > Len(facts) \/ (pc' = "done" /\ result' # MaxIterationsMsg)) =>
            llm_calls = [think |-> 1, select |-> 1, check |-> 1]
       /\ Len(facts') > Len(facts) =>
            /\ ~completion
            /\ Len(facts') = iterations
            /\ facts'[Len(facts')].content = process_observation(tool_response')]_vars

\* the second iteration has stored its observation
C19_Witness ==
    /\ iterations = 2
    /\ Len(facts) = 2
    /\ llm_calls = [think |-> 1, select |-> 1, check |-> 1]

CompleteAfterOneCall ==
    /\ pc = "done"
    /\ completion
    /\ Len(facts) = 1
    /\ facts[1].content = process_observation([content |-> "Y", error |-> "None"])
    /\ facts[1].source \in Tools

BodyContains(parts, text) ==
    \E n \in 1..Len(parts.body) : \E k \in 1..Len(parts.body[n]) : parts.body[n][k] = text
Cites(parts, name) == \E n \in 1..Len(parts.sources) : parts.sources[n] = name

\* C21: the capability returns content Y without error and the completion
\* check reports complete after one tool call: the returned answer contains Y
\* and a "## Sources:" section citing the capability name.
C21_AnswerContainsY ==
    CompleteAfterOneCall =>
        /\ result = SynthesizedAnswer
        /\ BodyContains(answer_parts, "Y")
        /\ Cites(answer_parts, facts[1].source)

\* C21, amended: in that run the returned answer has a "## Sources:" section
\* citing the capability name; its body is the answer text of the
\* final-synthesis backend when that call succeeds, and otherwise the
\* narrative, which contains Y.
C21_AnswerCitesSource ==
    CompleteAfterOneCall =>
        /\ result = SynthesizedAnswer
        /\ Cites(answer_parts, facts[1].source)
        /\ answer_parts.body = <<LLMAnswer>> \/ BodyContains(answer_parts, "Y")

\* the narrative path was taken and the answer contains Y
C21_Witness ==
    /\ CompleteAfterOneCall
    /\ answer_parts.body # <<LLMAnswer>>
    /\ BodyContains(answer_parts, "Y")

\* C22: every stored fact has a SourceRecord for its source id, created no
\* later than the fact; pruning never leaves a fact without its SourceRecord.
C22_SourceRecordExists ==
    \A fact \in FactSet(store.facts) :
        /\ fact.source \in DOMAIN store.sources
        /\ store.sources[fact.source].retrieval_date <= fact.timestamp

\* an insertion has pruned the store, and a kept fact is younger than the
\* record of its source
C22_Witness ==
    /\ store_op.op = "add"
    /\ store_op.lost # {}
    /\ \E fact \in FactSet(store.facts) :
          /\ fact.source \in DOMAIN store.sources
          /\ store.sources[fact.source].retrieval_date < fact.timestamp

\* C23: a SourceRecord, once created, never changes: later add_observation
\* calls naming its source, update_confidence_scores and prune_memory leave
\* its credibility and retrieval time as they were.
C23_SourceRecordImmutable ==
    [][\A id \in DOMAIN store.sources :
          /\ id \in DOMAIN store'.sources
          /\ store'.sources[id] = store.sources[id]]_vars

\* after the record was created, the same source was named by a later
\* insertion, confidences were updated and the store was pruned
C23_Witness ==
    /\ adds > max_facts
    /\ updates > 0
    /\ \E fact \in FactSet(store.facts) :
          /\ fact.source \in DOMAIN store.sources
          /\ store.sources[fact.source].retrieval_date < fact.timestamp

\* C24: on a limiter with refill rate 0 and bucket capacity C, the first C
\* _consume_token calls on an endpoint are granted and every later one is
\* refused at once and adds one to the throttled count, however much time
\* passes between the calls.
C24_FirstCapacityGranted ==
    rl_config.requests_per_second = 0 =>
        /\ \A endpoint \in DOMAIN limiter.usage_stats :
             /\ limiter.usage_stats[endpoint].requests =
                    Min(rl_calls[endpoint], rl_config.bucket_capacity)
             /\ limiter.usage_stats[endpoint].throttled =
                    rl_calls[endpoint] - limiter.usage_stats[endpoint].requests
        /\ rl_last # NoConsume =>
             (rl_last.granted <=> rl_calls[rl_last.endpoint] <= rl_config.bucket_capacity)

\* capacity 1, rate 0: after some time the second call on an endpoint was refused
C24_Witness ==
    /\ rl_config = [requests_per_second |-> 0, bucket_capacity |-> 1]
    /\ rl_now > 0
    /\ rl_pc = "idle"
    /\ rl_calls["web_search"] = 2
    /\ rl_last = [endpoint |-> "web_search", granted |-> FALSE]
    /\ limiter.usage_stats["web_search"] = [requests |-> 1, throttled |-> 1]

\* C25: queue_request never returns or raises without having called func
\* exactly once.
C25_CallsFuncOnce ==
    rl_pc \in QueueRequestOutcomes => rl_fn_calls = 1

\* the age of the entry a get found, and the ttl that get worked with
AgeAtGet == cache_last.at - cache_last.before.timestamp
TTLOfGet == effective_ttl(cache_last.ttl, default_ttl)

\* C26: a get that finds a well-formed entry returns its content and leaves
\* it in place while the entry's age is at most ttl (the default ttl when
\* none is given); once the age exceeds ttl it returns a miss and the file
\* is gone; a get that finds no file returns a miss and leaves no file.
C26_HitWithinTTL ==
    cache_last.op = "get" =>
        /\ cache_last.before.kind = "entry" =>
             IF AgeAtGet <= TTLOfGet
             THEN cache_last.result = cache_last.before.content
                  /\ cache_file = cache_last.before
             ELSE cache_last.result = Miss /\ cache_file = NoFile
        /\ cache_last.before = NoFile =>
             cache_last.result = Miss /\ cache_file = NoFile

\* a get without ttl found an entry older than the default of 3600 s
C26_Witness ==
    /\ default_ttl * CacheTickSeconds = default_ttl_seconds
    /\ cache_last.op = "get"
    /\ cache_last.ttl = None
    /\ cache_last.before.kind = "entry"
    /\ cache_last.before.content = stored
    /\ AgeAtGet = default_ttl + 1
    /\ cache_last.result = Miss
    /\ cache_file = NoFile

\* C27: a get that finds a file which is not a well-formed entry returns a
\* miss, does not raise, and removes the file.
C27_CorruptDeleted ==
    (cache_last.op = "get" /\ cache_last.before.kind \in CorruptKinds) =>
        /\ cache_last.result = Miss
        /\ cache_file = NoFile

\* C28: a get without ttl hits exactly while the age of the entry is at most
\* the ttl the entry was set with.
C28_SetTTLHonoured ==
    (cache_last.op = "get" /\ cache_last.ttl = None /\ cache_last.before.kind = "entry") =>
        IF AgeAtGet <= cache_last.before.ttl
        THEN cache_last.result = cache_last.before.content
        ELSE cache_last.result = Miss

\* C29: whatever the interleaving of the steps of concurrent get calls, a
\* get that has returned gave the stored content or a miss, and no get raised.
C29_ConcurrentGetsSafe ==
    \A r \in Readers :
        /\ readers[r].result \in {NoResult, Miss, stored}
        /\ readers[r].pc = "done" => readers[r].result \in {Miss, stored}

\* one caller lost the race for the file (its open or unlink found it gone)
\* and returned a miss, the other one returned
C29_Witness ==
    /\ readers["r1"].pc = "done"
    /\ readers["r1"].exc = "FileNotFoundError"
    /\ readers["r1"].result = Miss
    /\ readers["r2"].pc = "done"
    /\ stored # Miss

\* C30: when func raises inside execute_with_circuit_breaker, the call ends
\* with failure_count one higher, last_failure_time set to the time of the
\* failure and the state OPEN if the breaker was HALF_OPEN or the count
\* reached the threshold (otherwise unchanged), and the caller receives the
\* very exception func raised.
C30_ReraisedAfterBookkeeping ==
    [][(cb_pc = "in_fn" /\ cb_pc' = "raised") =>
          /\ cb'.failure_count = cb.failure_count + 1
          /\ cb'.last_failure_time = now
          /\ cb'.state = IF cb.state = HALF_OPEN
                            \/ cb.failure_count + 1 >= config.failure_threshold
                         THEN OPEN ELSE cb.state
          /\ cb_error'.func \in FuncErrors
          /\ cb_error'.caller = cb_error'.func]_vars

\* func raised ValueError below the threshold: the breaker stays CLOSED with
\* the failure counted and the caller holds the ValueError
C30_Witness ==
    /\ cb_pc = "raised"
    /\ cb_error = [func |-> "ValueError", caller |-> "ValueError"]
    /\ cb.state = CLOSED
    /\ cb.failure_count = 1
    /\ cb.last_failure_time = now
    /\ now > 0

\* the parts of an answer without the note of what the backend did
PartsOf(parts) ==
    [body |-> parts.body, reasoning |-> parts.reasoning,
     confidence_report |-> parts.confidence_report, sources |-> parts.sources]

\* C31: when the final-synthesis call fails or gives nothing parsed, the
\* answer is what the manual branch gives for the same facts: the narrative,
\* the computed confidence report and the citations.
C31_FallbackIsNarrativePath ==
    (pc = "done" /\ answer_parts.llm \in {"raises", "no_parsed"}) =>
        PartsOf(answer_parts) = narrative_path(facts)

\* C32: whenever the breaker is OPEN its last_failure_time is set; a call made
\* once timeout_seconds have elapsed since then is admitted in HALF_OPEN; and
\* the success that completes half_open_attempts successes in a row since
\* then leaves the breaker CLOSED. An OPEN breaker is therefore never stuck.
C32_OpenNeverStuck ==
    [][/\ cb.state = OPEN => cb.last_failure_time # None
       /\ cb'.state = OPEN => cb'.last_failure_time # None
       /\ (IsRunCall /\ cb.state = OPEN
             /\ now - cb.last_failure_time >= config.timeout_seconds) =>
              (cb'.state = HALF_OPEN /\ cb_pc' = "in_fn")
       /\ (IsFnReturn /\ cb.state = HALF_OPEN
             /\ succ_since_half_open + 1 = config.half_open_attempts) =>
              cb'.state = CLOSED]_vars

\* a breaker that was OPEN, was admitted after the timeout and is CLOSED again
\* after half_open_attempts successes, all within one cycle of failures
C32_Witness ==
    /\ cb.state = CLOSED
    /\ cb_pc = "returned"
    /\ succ_since_half_open = config.half_open_attempts
    /\ config.timeout_seconds = 2
    /\ fails_since_success = 0
    /\ cb.last_failure_time = None
    /\ now >= 2

\* C33: a call rejected because the breaker is OPEN leaves state,
\* failure_count, last_failure_time and the half-open success counter as they
\* were, so the time left until the breaker admits a call is not extended.
C33_RejectionChangesNothing ==
    [][(IsRunCall /\ cb_pc' = "rejected") =>
          /\ cb'.state = cb.state
          /\ cb'.failure_count = cb.failure_count
          /\ cb'.last_failure_time = cb.last_failure_time
          /\ cb'.half_open_success_count = cb.half_open_success_count]_vars

\* a call rejected some time after the failure that tripped the breaker
C33_Witness ==
    /\ cb_pc = "rejected"
    /\ cb.state = OPEN
    /\ cb.last_failure_time # None
    /\ cb.last_failure_time < now
    /\ now - cb.last_failure_time < config.timeout_seconds

\* C34: with failure_threshold >= 1, a CLOSED breaker has counted fewer than
\* failure_threshold failures.
C34_ClosedBelowThreshold ==
    (config.failure_threshold >= 1 /\ cb.state = CLOSED) =>
        cb.failure_count < config.failure_threshold

\* a CLOSED breaker one failure away from tripping
C34_Witness ==
    /\ cb.state = CLOSED
    /\ cb_pc = "raised"
    /\ config.failure_threshold = 2
    /\ cb.failure_count = 1

\* granted _consume_token calls on an endpoint at the times t1..t2
RECURSIVE GrantsIn(_, _, _)
GrantsIn(endpoint, t1, t2) ==
    IF t1 > t2 THEN 0
    ELSE rl_grants[endpoint][t1] + GrantsIn(endpoint, t1 + 1, t2)

\* C35: on each endpoint, the _consume_token calls granted within any window
\* of time t1..t2 number at most bucket_capacity + requests_per_second *
\* (t2 - t1) (counted in tokens of 1 / TokenScale).
C35_WindowBound ==
    \A endpoint \in Endpoints : \A t1, t2 \in 0..MaxLimiterTime :
        t1 <= t2 =>
            GrantsIn(endpoint, t1, t2) * TokenScale
                <= rl_config.bucket_capacity * TokenScale
                   + rl_config.requests_per_second * (t2 - t1)

\* a window that uses the bound up: the full bucket and a refilled token were
\* both granted by time 1, and a further call was refused
C35_Witness ==
    /\ rl_config = [requests_per_second |-> TokenScale, bucket_capacity |-> 1]
    /\ rl_grants["web_search"][0] = 1
    /\ rl_grants["web_search"][1] = 1
    /\ rl_calls["web_search"] = 3
    /\ rl_last = [endpoint |-> "web_search", granted |-> FALSE]

\* C36: the token count of every bucket is at least 0 and at most
\* bucket_capacity, whatever calls were made and however the clock advanced.
C36_TokensInRange ==
    \A endpoint \in DOMAIN limiter.tokens :
        /\ limiter.tokens[endpoint] >= 0
        /\ limiter.tokens[endpoint] <= rl_config.bucket_capacity * TokenScale

\* one bucket emptied by grants; the other, after a pause long enough to
\* overfill it at a slow rate, refilled to the cap and granted one token
C36_Witness ==
    /\ rl_config = [requests_per_second |-> 1, bucket_capacity |-> 2]
    /\ DOMAIN limiter.tokens = Endpoints
    /\ limiter.tokens["web_search"] = 0
    /\ limiter.tokens["wikipedia"] = rl_config.bucket_capacity * TokenScale - TokenScale
    /\ rl_calls["wikipedia"] = 2
    /\ rl_grants["wikipedia"][0] = 1
    /\ limiter.last_refill["wikipedia"] = MaxLimiterTime

\* C37: for every endpoint, the requests count is the number of
\* _consume_token calls granted since the last reset_usage_stats and the
\* throttled count the number refused since then, so their sum is the
\* number of calls made since then.
C37_StatsCountCalls ==
    \A endpoint \in Endpoints :
        /\ get_usage_stats(limiter, endpoint).requests = rl_since_reset[endpoint].granted
        /\ get_usage_stats(limiter, endpoint).throttled = rl_since_reset[endpoint].refused

\* calls granted and refused, then a reset, then a refused call again
C37_Witness ==
    /\ rl_calls["web_search"] = 3
    /\ rl_since_reset["web_search"] = [granted |-> 0, refused |-> 1]
    /\ limiter.usage_stats["web_search"] = [requests |-> 0, throttled |-> 1]
    /\ "wikipedia" \in DOMAIN limiter.usage_stats

\* C38: the store never holds more than max_facts facts once add_observation
\* has returned, whatever add_observation, update_confidence_scores and
\* prune_memory calls were made before.
C38_AtMostMaxFacts ==
    Len(store.facts) <= max_facts

\* an add_observation on a full store returned after pruning a fact away
C38_Witness ==
    /\ store_op.op = "add"
    /\ store_op.lost # {}
    /\ adds > max_facts
    /\ updates > 0
    /\ Len(store.facts) = max_facts

\* C40: the keys of confidence_scores are exactly the ids of the stored facts,
\* and each id is mapped to the confidence the fact has now.
C40_ScoresMatchFacts ==
    /\ DOMAIN store.confidence_scores = FactIds(store.facts)
    /\ \A k \in 1..Len(store.facts) :
         store.confidence_scores[store.facts[k].id] = store.facts[k].confidence

\* a full store after an update changed a confidence and an add took an id
\* that had been given out before
C40_Witness ==
    /\ Len(store.facts) = max_facts
    /\ store_op.op = "add"
    /\ store_op.reused
    /\ updates > 0
    /\ \E k \in 1..Len(store.facts) :
         store.facts[k].confidence \notin Confidences

\* C39: in an iteration whose completion decision reported complete, the step
\* after that decision ends the run: the selected action is not dispatched, no
\* capability runs, no fact is added, and the answer is the synthesis of the
\* facts gathered before, citing exactly their sources.
C39_ActionDiscardedOnComplete ==
    [][(pc = "observe" /\ completion) =>
          /\ pc' = "done"
          /\ facts' = facts
          /\ executed' = "none"
          /\ tool_response' = tool_response
          /\ result' = synthesize_answer(facts)
          /\ answer_parts'.sources = generate_citations(facts)]_vars

\* the second iteration selected a tool and was reported complete: the run
\* ended with the one fact of the first iteration
C39_Witness ==
    /\ pc = "done"
    /\ completion
    /\ iterations = 2
    /\ action_selection.action_type = "tool"
    /\ action_selection.action_name \in Tools
    /\ Len(facts) = 1
    /\ executed = "none"
    /\ result = SynthesizedAnswer
    /\ answer_parts.sources = generate_citations(facts)

====
